---- MODULE Spec2Model ----
(***************************************************************************)
(* Model of src/lib/stuff.js: the helper functions format, pop, getByPath, *)
(* state2uri, uri2state, extendQuery and the channel logger.               *)
(*                                                                         *)
(* A JavaScript string is a sequence of one-character strings.  A          *)
(* JavaScript value is a tagged record [t, v].  An object used as a        *)
(* parameter mapping is a sequence of <<key, value>> pairs with distinct   *)
(* keys, in the object's enumeration (insertion) order.                    *)
(***************************************************************************)
EXTENDS Integers, Sequences, FiniteSets, TLC

VARIABLES
    pc,            \* "ready" before the call, "done" after it returned or threw
    args,          \* the arguments of the call
    ret,           \* the value the call returned
    threw,         \* TRUE when the call raised an exception
    heap,          \* the caller's object passed by reference (array, mapping)
    DEBUG,         \* the global debug flag
    log_channels,  \* config['log_channels']
    console,       \* the console-like sink: whether it exists, and its methods
    emitted        \* what was written to the sink: <<method, message>> records

vars == <<pc, args, ret, threw, heap, DEBUG, log_channels, console, emitted>>

-----------------------------------------------------------------------------
(* JavaScript values *)

Undefined == [t |-> "undefined", v |-> <<>>]
StrV(s) == [t |-> "string", v |-> s]
ObjV(m) == [t |-> "object", v |-> m]

Null == [t |-> "null", v |-> <<>>]
\* A number, by its decimal digits.
NumV(digits) == [t |-> "number", v |-> digits]

\* ToBoolean: undefined, null, '' and 0 are falsy, objects are truthy.
Truthy(x) ==
    CASE x.t = "object" -> TRUE
      [] x.t = "string" -> Len(x.v) > 0
      [] x.t = "number" -> x.v # <<"0">>
      [] OTHER -> FALSE

\* _.isEmpty: true for undefined, the empty string and an object without keys.
IsEmpty(x) == x.t = "undefined" \/ Len(x.v) = 0

\* _.isString
IsString(x) == x.t = "string"

-----------------------------------------------------------------------------
(* String primitives *)

\* String.prototype.indexOf with a one-character needle: 0-based, -1 if absent.
IndexOf(s, c) ==
    IF \E i \in 1..Len(s) : s[i] = c
    THEN (CHOOSE i \in 1..Len(s) : s[i] = c /\ \A j \in 1..(i-1) : s[j] # c) - 1
    ELSE -1

\* String.prototype.slice(from) and slice(0, to), 0-based.
SliceFrom(s, from) == SubSeq(s, from + 1, Len(s))
SliceTo(s, to) == SubSeq(s, 1, to)

\* String.prototype.split with a one-character separator.
RECURSIVE Split(_, _)
Split(s, sep) ==
    LET i == IndexOf(s, sep)
    IN  IF i = -1 THEN <<s>>
        ELSE <<SliceTo(s, i)>> \o Split(SliceFrom(s, i + 1), sep)

\* Array.prototype.join
RECURSIVE Join(_, _)
Join(parts, sep) ==
    IF Len(parts) = 0 THEN <<>>
    ELSE IF Len(parts) = 1 THEN parts[1]
    ELSE parts[1] \o sep \o Join(Tail(parts), sep)

\* Characters that encodeURIComponent / querystring.escape percent-encode,
\* with the two hex digits of their code.
Reserved == {"%", "&", "=", "?", "/", "+", " "}
HexOf(c) ==
    CASE c = "%" -> <<"2", "5">>
      [] c = "&" -> <<"2", "6">>
      [] c = "=" -> <<"3", "D">>
      [] c = "?" -> <<"3", "F">>
      [] c = "/" -> <<"2", "F">>
      [] c = "+" -> <<"2", "B">>
      [] c = " " -> <<"2", "0">>

\* encodeURIComponent
RECURSIVE EncodeURIComponent(_)
EncodeURIComponent(s) ==
    IF Len(s) = 0 THEN <<>>
    ELSE (IF Head(s) \in Reserved THEN <<"%">> \o HexOf(Head(s)) ELSE <<Head(s)>>)
         \o EncodeURIComponent(Tail(s))

\* Whether s starts with a well-formed escape %XX of a modelled character.
IsEscapeAt(s) ==
    /\ Len(s) >= 3
    /\ s[1] = "%"
    /\ \E c \in Reserved : HexOf(c) = <<s[2], s[3]>>
EscapedChar(s) == CHOOSE c \in Reserved : HexOf(c) = <<s[2], s[3]>>

\* decodeURIComponent: Malformed stands for the URIError it throws on a '%'
\* that starts no escape sequence.
Malformed == <<"URIError">>
RECURSIVE DecodeURIComponent(_)
DecodeURIComponent(s) ==
    IF Len(s) = 0 THEN <<>>
    ELSE IF Head(s) = "%"
         THEN IF IsEscapeAt(s)
              THEN LET rest == DecodeURIComponent(SubSeq(s, 4, Len(s)))
                   IN  IF rest = Malformed THEN Malformed
                       ELSE <<EscapedChar(s)>> \o rest
              ELSE Malformed
         ELSE LET rest == DecodeURIComponent(Tail(s))
              IN  IF rest = Malformed THEN Malformed ELSE <<Head(s)>> \o rest

\* querystring.unescape: '+' was turned into a space by the parser, and a '%'
\* that starts no escape sequence is kept as it is (no exception).
RECURSIVE QsUnescape(_)
QsUnescape(s) ==
    IF Len(s) = 0 THEN <<>>
    ELSE IF IsEscapeAt(s)
         THEN <<EscapedChar(s)>> \o QsUnescape(SubSeq(s, 4, Len(s)))
         ELSE <<(IF Head(s) = "+" THEN " " ELSE Head(s))>> \o QsUnescape(Tail(s))

-----------------------------------------------------------------------------
(* Parameter mappings: sequences of <<key, value>> with distinct keys *)

HasKey(m, k) == \E i \in 1..Len(m) : m[i][1] = k
KeyIndex(m, k) == CHOOSE i \in 1..Len(m) : m[i][1] = k
Lookup(m, k) == m[KeyIndex(m, k)][2]
KeysOf(m) == {m[i][1] : i \in 1..Len(m)}

\* obj[k] = v: an existing key keeps its place, a new key is added at the end.
Assign(m, k, v) ==
    IF HasKey(m, k)
    THEN [i \in 1..Len(m) |-> IF m[i][1] = k THEN <<k, v>> ELSE m[i]]
    ELSE Append(m, <<k, v>>)

\* delete obj[k]
Delete(m, k) == SelectSeq(m, LAMBDA p : p[1] # k)

\* _.extend(dst, src): assigns every key of src to dst and returns dst.
RECURSIVE Extend(_, _)
Extend(dst, src) ==
    IF Len(src) = 0 THEN dst
    ELSE Extend(Assign(dst, src[1][1], src[1][2]), Tail(src))

-----------------------------------------------------------------------------
(* querystring.parse and querystring.stringify.  A parsed value is the list *)
(* of the values its key was given: one element for a key given once, more  *)
(* for a repeated key (the array Node builds).                              *)

RECURSIVE ParseParts(_, _)
ParseParts(parts, acc) ==
    IF Len(parts) = 0 THEN acc
    ELSE LET part == Head(parts)
             idx == IndexOf(part, "=")
             k == QsUnescape(IF idx >= 0 THEN SliceTo(part, idx) ELSE part)
             v == QsUnescape(IF idx >= 0 THEN SliceFrom(part, idx + 1) ELSE <<>>)
             next == IF Len(part) = 0 THEN acc
                     ELSE IF HasKey(acc, k)
                          THEN Assign(acc, k, Append(Lookup(acc, k), v))
                          ELSE Append(acc, <<k, <<v>>>>)
         IN  ParseParts(Tail(parts), next)

QuerystringParse(qs) == ParseParts(Split(qs, "&"), <<>>)

RECURSIVE StringifyValues(_, _)
StringifyValues(k, vals) ==
    IF Len(vals) = 0 THEN <<>>
    ELSE <<EncodeURIComponent(k) \o <<"=">> \o EncodeURIComponent(Head(vals))>>
         \o StringifyValues(k, Tail(vals))

RECURSIVE StringifyPairs(_)
StringifyPairs(m) ==
    IF Len(m) = 0 THEN <<>>
    ELSE StringifyValues(m[1][1], m[1][2]) \o StringifyPairs(Tail(m))

QuerystringStringify(m) == Join(StringifyPairs(m), <<"&">>)

-----------------------------------------------------------------------------
(* extendQuery(newUrl, oldUrl, forcedRenewParam) *)

\* newUrl = newUrl || ''
NewUrlOrEmpty(newUrl) == IF Truthy(newUrl) THEN newUrl.v ELSE <<>>

\* The query of a URL string, parsed: nothing when there is no '?' or
\* nothing after it.
QueryParsed(url) ==
    LET queryIndex == IndexOf(url, "?")
        query == IF queryIndex # -1 THEN SliceFrom(url, queryIndex + 1) ELSE <<>>
    IN  IF Len(query) > 0 THEN QuerystringParse(query) ELSE <<>>

\* oldQueryParsed: parsed from a string, the caller's own object otherwise.
OldQueryParsed(oldUrl) ==
    IF IsString(oldUrl) THEN QueryParsed(oldUrl.v) ELSE oldUrl.v

\* Faulty variant of RenewForced: the key is never deleted.
KeepOldParam(oldQueryParsed, forcedRenewParam) == oldQueryParsed
\* if (forcedRenewParam) delete oldQueryParsed[forcedRenewParam]
RenewForced(oldQueryParsed, forcedRenewParam) ==
    IF Truthy(forcedRenewParam)
    THEN Delete(oldQueryParsed, forcedRenewParam.v)
    ELSE oldQueryParsed

\* Faulty variant of ResQueryParsed: the arguments of _.extend swapped.
OldWins(oldQueryParsed, newQueryParsed) == Extend(newQueryParsed, oldQueryParsed)
\* resQueryParsed = _.extend(oldQueryParsed, newQueryParsed)
ResQueryParsed(oldQueryParsed, newQueryParsed) ==
    Extend(oldQueryParsed, newQueryParsed)

\* resBase
ResBase(newUrl) ==
    LET newQueryIndex == IndexOf(newUrl, "?")
    IN  IF newQueryIndex # -1 THEN SliceTo(newUrl, newQueryIndex) ELSE newUrl

\* Faulty variant of ResQuery: no test for the empty mapping.
AlwaysQuestionMark(resQueryParsed) == <<"?">> \o QuerystringStringify(resQueryParsed)
\* resQuery = _.isEmpty(resQueryParsed) ? '' : '?' + querystring.stringify(...)
ResQuery(resQueryParsed) ==
    IF Len(resQueryParsed) = 0 THEN <<>>
    ELSE <<"?">> \o QuerystringStringify(resQueryParsed)

\* Faulty variant of OldIsEmpty: only a missing oldUrl counts as empty.
OnlyUndefinedIsEmpty(oldUrl) == oldUrl.t = "undefined"
\* The test of the early returns of extendQuery: _.isEmpty(oldUrl).
OldIsEmpty(oldUrl) == IsEmpty(oldUrl)

\* The whole function: the string it returns and what the object passed as
\* oldUrl holds afterwards (oldQueryParsed is that very object when oldUrl
\* is not a string, and delete and _.extend both write to it).
ExtendQuery(newUrlArg, oldUrl, forcedRenewParam) ==
    LET newUrl == NewUrlOrEmpty(newUrlArg)
    IN  IF OldIsEmpty(oldUrl) /\ Len(newUrl) = 0
        THEN [ret |-> <<>>, oldUrl |-> oldUrl]
        ELSE IF OldIsEmpty(oldUrl)
        THEN [ret |-> newUrl, oldUrl |-> oldUrl]
        ELSE LET newQueryParsed == QueryParsed(newUrl)
                 oldQueryParsed == RenewForced(OldQueryParsed(oldUrl), forcedRenewParam)
                 resQueryParsed == ResQueryParsed(oldQueryParsed, newQueryParsed)
             IN  [ret |-> ResBase(newUrl) \o ResQuery(resQueryParsed),
                  oldUrl |-> IF IsString(oldUrl) THEN oldUrl
                             ELSE ObjV(resQueryParsed)]

-----------------------------------------------------------------------------
(* Bounded inputs of extendQuery *)

MaxNewParams == 1   \* parameters in newUrl's query
MaxOldParams == 2   \* parameters in oldUrl's query or mapping

\* All sequences over S of length at most n.
SeqsUpTo(S, n) == UNION {[1..k -> S] : k \in 0..n}

QKeys == {<<"a">>, <<"b">>}
QValues == {<<"1">>, <<"&">>}
\* What follows the key in a raw query parameter: '=1', '=%26' or nothing.
NewTails == {<<"=", "1">>, <<"=", "%", "2", "6">>, <<>>}
OldTails == {<<"=", "1">>, <<"=", "%", "2", "6">>}

RawQueries(tails, n) ==
    {Join(ps, <<"&">>) : ps \in SeqsUpTo({k \o e : k \in QKeys, e \in tails}, n)}

\* newUrl: missing, or a base with or without '?' and a query.
NewUrls ==
    {Undefined} \cup
    {StrV(base \o q) :
        base \in {<<>>, <<"/", "p">>},
        q \in {<<>>} \cup {<<"?">> \o r : r \in RawQueries(NewTails, MaxNewParams)}}

\* A caller's mapping: distinct keys, each with one value.
Mappings(n) ==
    {m \in SeqsUpTo({<<k, <<v>>>> : k \in QKeys, v \in QValues}, n) :
        \A i, j \in 1..Len(m) : m[i][1] = m[j][1] => i = j}

\* oldUrl: missing, '', a URL string or a parameter mapping.
OldUrls ==
    {Undefined, StrV(<<>>)} \cup
    {StrV(<<"/", "o">> \o q) :
        q \in {<<>>} \cup {<<"?">> \o r : r \in RawQueries(OldTails, MaxOldParams)}} \cup
    {ObjV(m) : m \in Mappings(MaxOldParams)}

ForcedRenewParams == {Undefined, StrV(<<>>)} \cup {StrV(k) : k \in QKeys}

-----------------------------------------------------------------------------
(* State machine: one call of one function on bounded inputs *)

NoEnv ==
    /\ DEBUG = FALSE
    /\ log_channels = {}
    /\ console = [present |-> FALSE, methods |-> {}]
    /\ emitted = <<>>

InitExtendQuery ==
    /\ pc = "ready"
    /\ args \in [newUrl : NewUrls, oldUrl : OldUrls,
                 forcedRenewParam : ForcedRenewParams]
    /\ heap = args.oldUrl
    /\ ret = Undefined
    /\ threw = FALSE
    /\ NoEnv

CallExtendQuery ==
    /\ pc = "ready"
    /\ LET r == ExtendQuery(args.newUrl, heap, args.forcedRenewParam)
       IN  /\ ret' = StrV(r.ret)
           /\ heap' = r.oldUrl
    /\ pc' = "done"
    /\ UNCHANGED <<args, threw, DEBUG, log_channels, console, emitted>>

SpecExtendQuery == InitExtendQuery /\ [][CallExtendQuery]_vars

-----------------------------------------------------------------------------
(* Properties of extendQuery *)

\* A parameter mapping as a function from its keys to their values.
AsFunction(m) == [k \in KeysOf(m) |-> Lookup(m, k)]

\* The parameters of the arguments and of the result of the call.
NewParams == QueryParsed(NewUrlOrEmpty(args.newUrl))
OldParams == IF IsEmpty(args.oldUrl) THEN <<>> ELSE OldQueryParsed(args.oldUrl)
ResultParams == QueryParsed(ret.v)

\* Old and new merged: new wins, except that the old value of a key in
\* `renewed` is dropped first.
MergedParams(renewed) ==
    [k \in (KeysOf(OldParams) \ renewed) \cup KeysOf(NewParams) |->
        IF HasKey(NewParams, k) THEN Lookup(NewParams, k) ELSE Lookup(OldParams, k)]

\* C1: with a non-empty oldUrl and no forcedRenewParam, the parameters of the
\* result are the union of the old and new keys; a key of newUrl carries
\* newUrl's value and a key only in oldUrl carries oldUrl's value.
C1_MergeNewWins ==
    (pc = "done" /\ ~IsEmpty(args.oldUrl) /\ ~Truthy(args.forcedRenewParam)) =>
        /\ KeysOf(ResultParams) = KeysOf(OldParams) \cup KeysOf(NewParams)
        /\ \A k \in KeysOf(NewParams) : Lookup(ResultParams, k) = Lookup(NewParams, k)
        /\ \A k \in KeysOf(OldParams) \ KeysOf(NewParams) :
              Lookup(ResultParams, k) = Lookup(OldParams, k)

\* A call where old and new collide on a key with different values and old
\* has a key of its own.
C1_Witness ==
    /\ pc = "done" /\ ~IsEmpty(args.oldUrl) /\ ~Truthy(args.forcedRenewParam)
    /\ \E k \in KeysOf(OldParams) \cap KeysOf(NewParams) :
          Lookup(OldParams, k) # Lookup(NewParams, k)
    /\ KeysOf(OldParams) \ KeysOf(NewParams) # {}

\* C2: with a forcedRenewParam, the result carries that key exactly when
\* newUrl's query has it, with newUrl's value, never the old value; every
\* other key merges as usual.
C2_ForcedRenew ==
    (pc = "done" /\ Truthy(args.forcedRenewParam)) =>
        LET f == args.forcedRenewParam.v
        IN  /\ HasKey(ResultParams, f) <=> HasKey(NewParams, f)
            /\ HasKey(NewParams, f) => Lookup(ResultParams, f) = Lookup(NewParams, f)
            /\ AsFunction(ResultParams) = MergedParams({f})

\* A call where the forced key is in oldUrl and not in newUrl, next to
\* another old key that is kept.
C2_Witness ==
    /\ pc = "done" /\ Truthy(args.forcedRenewParam)
    /\ HasKey(OldParams, args.forcedRenewParam.v)
    /\ ~HasKey(NewParams, args.forcedRenewParam.v)
    /\ KeysOf(ResultParams) \cap KeysOf(OldParams) # {}

\* C3: a mapping passed as oldUrl holds the same keys and values after the
\* call as before it.
C3_OldMappingUntouched ==
    (pc = "done" /\ args.oldUrl.t = "object") => heap = args.oldUrl

\* The result begins with newUrl's part before its first '?', followed by
\* '?' and the serialized merged parameters exactly when there are any.
ReassembledFrom(merged) ==
    LET base == ResBase(NewUrlOrEmpty(args.newUrl))
        suffix == SubSeq(ret.v, Len(base) + 1, Len(ret.v))
    IN  /\ Len(ret.v) >= Len(base)
        /\ SubSeq(ret.v, 1, Len(base)) = base
        /\ IF DOMAIN merged = {}
           THEN suffix = <<>>
           ELSE /\ Len(suffix) > 1
                /\ Head(suffix) = "?"
                /\ AsFunction(QuerystringParse(Tail(suffix))) = merged
                /\ Tail(suffix) = QuerystringStringify(QuerystringParse(Tail(suffix)))

RenewedKeys ==
    IF Truthy(args.forcedRenewParam) THEN {args.forcedRenewParam.v} ELSE {}

\* C4 as stated: the result always has that shape.
C4_AlwaysReassembled ==
    pc = "done" => ReassembledFrom(MergedParams(RenewedKeys))

\* C4 amended: the result has that shape whenever oldUrl is not empty.
C4_ReassembledWhenOldNotEmpty ==
    (pc = "done" /\ ~IsEmpty(args.oldUrl)) => ReassembledFrom(MergedParams(RenewedKeys))

\* A call with a non-empty oldUrl whose merge is empty although newUrl ends
\* in '?', and so returns the bare base.
C4_Witness ==
    /\ pc = "done" /\ ~IsEmpty(args.oldUrl)
    /\ args.newUrl = StrV(<<"/", "p", "?">>)
    /\ DOMAIN MergedParams(RenewedKeys) = {}
    /\ ret = StrV(<<"/", "p">>)

\* C5: with an empty oldUrl the call returns newUrl unchanged, '' when newUrl
\* is empty too, whatever forcedRenewParam is.
C5_EmptyOldReturnsNew ==
    (pc = "done" /\ IsEmpty(args.oldUrl)) =>
        IF args.newUrl.t = "string" THEN ret = args.newUrl ELSE ret = StrV(<<>>)

\* A call with an empty mapping as oldUrl, a forcedRenewParam and a newUrl
\* that a merge would have rewritten.
C5_Witness ==
    /\ pc = "done"
    /\ args.oldUrl = ObjV(<<>>)
    /\ Truthy(args.forcedRenewParam)
    /\ args.newUrl = StrV(<<"/", "p", "?", "a">>)
    /\ ret = args.newUrl

-----------------------------------------------------------------------------
(* pop(array, value) *)

\* Faulty variant of LastIndexOf: the first matching index.
FirstIndexOf(array, value) ==
    IF \E i \in 1..Len(array) : array[i] = value
    THEN (CHOOSE i \in 1..Len(array) :
             array[i] = value /\ \A j \in 1..(i-1) : array[j] # value) - 1
    ELSE -1
\* _.lastIndexOf(array, value): strict equality, 0-based, -1 if absent.
LastIndexOf(array, value) ==
    IF \E i \in 1..Len(array) : array[i] = value
    THEN (CHOOSE i \in 1..Len(array) :
             array[i] = value /\ \A j \in (i+1)..Len(array) : array[j] # value) - 1
    ELSE -1

\* array.splice(index, 1), index 0-based
Splice1(array, index) ==
    SubSeq(array, 1, index) \o SubSeq(array, index + 2, Len(array))

\* The array after pop(array, value).
Pop(array, value) ==
    LET lastIndex == LastIndexOf(array, value)
    IN  IF lastIndex # -1 THEN Splice1(array, lastIndex) ELSE array

MaxArrayLen == 4

\* The number 1, the number 2 and the string '1'.
Elements == {NumV(<<"1">>), NumV(<<"2">>), StrV(<<"1">>)}

InitPop ==
    /\ pc = "ready"
    /\ args \in [array : SeqsUpTo(Elements, MaxArrayLen), value : Elements]
    /\ heap = args.array
    /\ ret = Undefined
    /\ threw = FALSE
    /\ NoEnv

CallPop ==
    /\ pc = "ready"
    /\ heap' = Pop(heap, args.value)
    /\ ret' = Undefined
    /\ pc' = "done"
    /\ UNCHANGED <<args, threw, DEBUG, log_channels, console, emitted>>

SpecPop == InitPop /\ [][CallPop]_vars

\* C6: pop removes exactly the element at the last index that strictly equals
\* value and keeps the others in their order; without such an element the
\* array is unchanged.
C6_PopLastMatch ==
    pc = "done" =>
        LET a == args.array
            matches == {i \in 1..Len(a) : a[i] = args.value}
        IN  IF matches = {}
            THEN heap = a
            ELSE \E i \in matches :
                    /\ \A j \in matches : j <= i
                    /\ Len(heap) = Len(a) - 1
                    /\ \A j \in 1..Len(heap) :
                          heap[j] = IF j < i THEN a[j] ELSE a[j + 1]

\* A call on an array holding the value twice, the string of the same digits
\* and another element after the last match.
C6_Witness ==
    /\ pc = "done"
    /\ args.value = NumV(<<"1">>)
    /\ args.array = <<NumV(<<"1">>), StrV(<<"1">>), NumV(<<"1">>), NumV(<<"2">>)>>
    /\ heap = <<NumV(<<"1">>), StrV(<<"1">>), NumV(<<"2">>)>>

-----------------------------------------------------------------------------
(* getByPath(obj, path, separator) *)

\* What indexing null or undefined raises.
TypeError == [t |-> "TypeError", v |-> <<>>]

\* obj[key]: the property of an object, undefined for a missing property or
\* a property of a number, a TypeError on null and undefined.
Get(obj, key) ==
    CASE obj.t = "object" ->
            IF HasKey(obj.v, key) THEN Lookup(obj.v, key) ELSE Undefined
      [] obj.t \in {"undefined", "null", "TypeError"} -> TypeError
      [] OTHER -> Undefined

\* Faulty variant of Walk: the loop does not test obj.
RECURSIVE WalkUnguarded(_, _)
WalkUnguarded(obj, paths) ==
    IF Len(paths) > 0
    THEN WalkUnguarded(Get(obj, Head(paths)), Tail(paths))
    ELSE obj
\* while (paths.length && obj) obj = obj[paths.shift()]; return obj
RECURSIVE Walk(_, _)
Walk(obj, paths) ==
    IF Len(paths) > 0 /\ Truthy(obj)
    THEN Walk(Get(obj, Head(paths)), Tail(paths))
    ELSE obj

\* separator = separator || '.'; paths = path.split(separator)
Paths(path, separator) ==
    Split(path, IF Truthy(separator) THEN separator.v[1] ELSE ".")

GetByPath(obj, path, separator) == Walk(obj, Paths(path, separator))

MaxDepth == 3     \* nesting depth of the object
MaxPathLen == 3   \* keys in the path

PKeys == {<<"a">>, <<"b">>}
Leaves == {NumV(<<"0">>), NumV(<<"5">>), Null}

\* Values nested at most d deep, each object with at most one property.
RECURSIVE Nested(_)
Nested(d) ==
    IF d = 0 THEN Leaves
    ELSE LET inner == Nested(d - 1)
         IN  inner \cup {ObjV(<<>>)} \cup {ObjV(<<<<k, x>>>>) : k \in PKeys, x \in inner}

\* The objects looked into: properties a and b, each absent or nested.
Roots ==
    LET inner == Nested(MaxDepth - 1)
        prop(k, x) == IF x = Undefined THEN <<>> ELSE <<<<k, x>>>>
    IN  {ObjV(prop(<<"a">>, x) \o prop(<<"b">>, y)) :
            x \in inner \cup {Undefined}, y \in inner \cup {Undefined}}

Separators == {Undefined, StrV(<<"/">>)}

PathArgs ==
    {[obj |-> o, path |-> Join(ks, IF sep = Undefined THEN <<".">> ELSE sep.v),
      separator |-> sep] :
        o \in Roots, ks \in SeqsUpTo(PKeys, MaxPathLen), sep \in Separators}

InitGetByPath ==
    /\ pc = "ready"
    /\ args \in PathArgs
    /\ heap = args.obj
    /\ ret = Undefined
    /\ threw = FALSE
    /\ NoEnv

CallGetByPath ==
    /\ pc = "ready"
    /\ LET r == GetByPath(heap, args.path, args.separator)
       IN  /\ threw' = (r = TypeError)
           /\ ret' = IF r = TypeError THEN Undefined ELSE r
    /\ pc' = "done"
    /\ UNCHANGED <<args, heap, DEBUG, log_channels, console, emitted>>

SpecGetByPath == InitGetByPath /\ [][CallGetByPath]_vars

\* The keys of the call's path.
PathKeys == Paths(args.path, args.separator)

\* The value reached from the object by the first n keys of the path.
RECURSIVE ValueAfter(_)
ValueAfter(n) ==
    IF n = 0 THEN args.obj ELSE Get(ValueAfter(n - 1), PathKeys[n])

\* Every key of the path is a property of the object reached before it.
AllKeysPresent ==
    \A n \in 1..Len(PathKeys) :
        /\ \A i \in 0..(n - 1) : ValueAfter(i).t = "object"
        /\ HasKey(ValueAfter(n - 1).v, PathKeys[n])

\* C7 as stated: the value reached when all keys are present, undefined (or
\* null) without raising when a key cannot be resolved.
C7_AbsentWhenUnresolved ==
    pc = "done" =>
        /\ ~threw
        /\ IF AllKeysPresent
           THEN ret = ValueAfter(Len(PathKeys))
           ELSE ret \in {Undefined, Null}

\* C7 amended: the value reached when all keys are present; otherwise,
\* without raising, the first falsy value met on the way, which is undefined
\* for a missing key and the falsy intermediate value itself otherwise.
C7_FirstFalsyWhenUnresolved ==
    pc = "done" =>
        /\ ~threw
        /\ IF AllKeysPresent
           THEN ret = ValueAfter(Len(PathKeys))
           ELSE \E n \in 0..Len(PathKeys) :
                   /\ \A i \in 0..(n - 1) : Truthy(ValueAfter(i))
                   /\ ~Truthy(ValueAfter(n))
                   /\ ret = ValueAfter(n)

\* A call that stops at the falsy intermediate value 0 with a key left over.
C7_Witness ==
    /\ pc = "done"
    /\ ~AllKeysPresent
    /\ ret = NumV(<<"0">>)
    /\ Len(PathKeys) >= 2

-----------------------------------------------------------------------------
(* state2uri(state) and uri2state(uri).  A state is a mapping whose values *)
(* are strings.                                                            *)

\* Faulty variant of Part: the value is not encoded.
PartRaw(key, value) == key \o <<"=">> \o value
\* key + '=' + encodeURIComponent(state[key])
Part(key, value) == key \o <<"=">> \o EncodeURIComponent(value)

RECURSIVE Parts(_)
Parts(state) ==
    IF Len(state) = 0 THEN <<>>
    ELSE <<Part(state[1][1], state[1][2])>> \o Parts(Tail(state))

State2uri(state) == Join(Parts(state), <<"&">>)

\* part.replace(/([^=]+)\=?(.*)/g, ...): the match starts at the first
\* character that is no '='; name runs to the next '=', value is the rest.
\* No match, and nothing assigned, when the part has no such character.
RECURSIVE DropEquals(_)
DropEquals(part) ==
    IF Len(part) > 0 /\ Head(part) = "=" THEN DropEquals(Tail(part)) ELSE part

\* result after the parts are handled in order; Malformed when
\* decodeURIComponent throws.
RECURSIVE EachPart(_, _)
EachPart(parts, result) ==
    IF Len(parts) = 0 THEN result
    ELSE LET m == DropEquals(Head(parts))
             idx == IndexOf(m, "=")
             name == IF idx >= 0 THEN SliceTo(m, idx) ELSE m
             value == DecodeURIComponent(IF idx >= 0 THEN SliceFrom(m, idx + 1) ELSE <<>>)
         IN  IF Len(m) = 0 THEN EachPart(Tail(parts), result)
             ELSE IF value = Malformed THEN Malformed
             ELSE EachPart(Tail(parts), Assign(result, name, value))

Uri2state(uri) ==
    IF Len(uri) = 0 THEN <<>>
    ELSE EachPart(Split(IF Head(uri) = "?" THEN Tail(uri) ELSE uri, "&"), <<>>)

MaxStateKeys == 2

CodecKeys == {<<"a">>, <<"?", "a">>, <<"%">>}
CodecValues == {<<>>, <<"1">>, <<"=">>, <<"&">>, <<"%">>, <<"%", "3", "D">>}

States ==
    {m \in SeqsUpTo({<<k, v>> : k \in CodecKeys, v \in CodecValues}, MaxStateKeys) :
        \A i, j \in 1..Len(m) : m[i][1] = m[j][1] => i = j}

InitCodec ==
    /\ pc = "ready"
    /\ args \in [state : States]
    /\ heap = Undefined
    /\ ret = Undefined
    /\ threw = FALSE
    /\ NoEnv

\* uri = state2uri(state)
CallState2uri ==
    /\ pc = "ready"
    /\ heap' = StrV(State2uri(args.state))
    /\ pc' = "encoded"
    /\ UNCHANGED <<args, ret, threw, DEBUG, log_channels, console, emitted>>

\* uri2state(uri)
CallUri2state ==
    /\ pc = "encoded"
    /\ LET r == Uri2state(heap.v)
       IN  /\ threw' = (r = Malformed)
           /\ ret' = IF r = Malformed THEN Undefined ELSE ObjV(r)
    /\ pc' = "done"
    /\ UNCHANGED <<args, heap, DEBUG, log_channels, console, emitted>>

SpecCodec == InitCodec /\ [][CallState2uri \/ CallUri2state]_vars

\* uri2state(state2uri(state)) has the keys and values of state.
RoundTrips ==
    /\ ~threw
    /\ ret.t = "object"
    /\ AsFunction(ret.v) = AsFunction(args.state)

\* C8 as stated: every state with non-empty keys free of '=' and '&' and
\* string values survives the round trip.
C8_RoundTrip ==
    pc = "done" => RoundTrips

\* C8 amended: it does when, in addition, the first key in enumeration
\* order does not begin with '?'.
C8_RoundTripUnlessLeadingQuestionMark ==
    (pc = "done" /\ (Len(args.state) > 0 => Head(args.state[1][1]) # "?")) =>
        RoundTrips

\* A round trip of a state whose second key begins with '?' and whose values
\* hold '&' and a literal '%3D'.
C8_Witness ==
    /\ pc = "done"
    /\ args.state = << <<<<"a">>, <<"%", "3", "D">>>>, <<<<"?", "a">>, <<"&">>>> >>
    /\ heap = StrV(<<"a", "=", "%", "2", "5", "3", "D", "&", "?", "a", "=", "%", "2", "6">>)
    /\ RoundTrips

-----------------------------------------------------------------------------
(* logEnabledFor, logToChannel, log, warn, error *)

\* logEnabledFor(channel)
LogEnabledFor(channel) ==
    IF DEBUG THEN channel \in log_channels ELSE FALSE

\* logToChannel(channel, type, ...args): what the call emits and whether it
\* throws.  Function.prototype.apply.call(console[type], console, args)
\* throws a TypeError when console[type] is undefined.
LogToChannel(channel, type, message) ==
    IF DEBUG /\ LogEnabledFor(channel) /\ console.present
    THEN IF type \in console.methods
         THEN [emitted |-> Append(emitted, <<type, message>>), threw |-> FALSE]
         ELSE [emitted |-> emitted, threw |-> TRUE]
    ELSE [emitted |-> emitted, threw |-> FALSE]

Channels == {"app", "warn", "error"}
Methods == {"log", "warn", "error"}
Messages == {"m"}

InitLog ==
    /\ pc = "ready"
    /\ args = [fn |-> "none", channel |-> "none", type |-> "none", message |-> "none"]
    /\ heap = Undefined
    /\ ret = Undefined
    /\ threw = FALSE
    /\ DEBUG \in BOOLEAN
    /\ log_channels \in SUBSET Channels
    /\ console \in [present : BOOLEAN, methods : SUBSET Methods]
    /\ console.present = FALSE => console.methods = {}
    /\ emitted = <<>>

Logged(fn, channel, type, message) ==
    /\ pc = "ready"
    /\ args' = [fn |-> fn, channel |-> channel, type |-> type, message |-> message]
    /\ LET r == LogToChannel(channel, type, message)
       IN  /\ emitted' = r.emitted
           /\ threw' = r.threw
    /\ pc' = "done"
    /\ UNCHANGED <<ret, heap, DEBUG, log_channels, console>>

\* exports.log(channel, ...args)
CallLog == \E channel \in Channels, m \in Messages : Logged("log", channel, "log", m)
\* exports.warn(...args)
CallWarn == \E m \in Messages : Logged("warn", "warn", "warn", m)
\* exports.error(...args)
CallError == \E m \in Messages : Logged("error", "error", "error", m)

SpecLog == InitLog /\ [][CallLog \/ CallWarn \/ CallError]_vars

\* C9: with debug on and the channel enabled, a call is a silent no-op when
\* the sink is absent or lacks the method of the message type.
C9_SilentWithoutSinkMethod ==
    (/\ pc = "done"
     /\ DEBUG
     /\ args.channel \in log_channels
     /\ (~console.present \/ args.type \notin console.methods)) =>
        (~threw /\ emitted = <<>>)

-----------------------------------------------------------------------------
(* format(str, ...values) *)

Digits == {"0", "1", "2"}
DigitValue(c) == CASE c = "0" -> 0 [] c = "1" -> 1 [] c = "2" -> 2

\* parseInt(num, 10) of a run of digits
RECURSIVE ParseInt(_)
ParseInt(ds) ==
    IF Len(ds) = 0 THEN 0
    ELSE ParseInt(SubSeq(ds, 1, Len(ds) - 1)) * 10 + DigitValue(ds[Len(ds)])

\* The longest run of digits s starts with: what (\d+) captures.
RECURSIVE DigitRun(_)
DigitRun(s) ==
    IF Len(s) > 0 /\ Head(s) \in Digits THEN <<Head(s)>> \o DigitRun(Tail(s)) ELSE <<>>

\* What replace() inserts for a replacer that returned undefined.
UndefinedText == <<"u", "n", "d", "e", "f", "i", "n", "e", "d">>

\* values[num] with values = arguments, so that values[0] is str itself.
ArgumentAt(arguments, num) ==
    IF num < Len(arguments) THEN arguments[num + 1] ELSE UndefinedText

\* str.replace(/%(\d+)/g, function(m, num) { return values[parseInt(num, 10)] })
RECURSIVE ReplaceTokens(_, _)
ReplaceTokens(s, arguments) ==
    IF Len(s) = 0 THEN <<>>
    ELSE IF Head(s) = "%" /\ Len(DigitRun(Tail(s))) > 0
         THEN LET num == DigitRun(Tail(s))
              IN  ArgumentAt(arguments, ParseInt(num))
                  \o ReplaceTokens(SubSeq(s, Len(num) + 2, Len(s)), arguments)
         ELSE <<Head(s)>> \o ReplaceTokens(Tail(s), arguments)

Format(str, values) == ReplaceTokens(str, <<str>> \o values)

MaxTemplateLen == 3
MaxValues == 2

TemplateChars == {"x", "%"} \cup Digits
FormatValues == {<<"A">>, <<"B">>}

InitFormat ==
    /\ pc = "ready"
    /\ args \in [str : SeqsUpTo(TemplateChars, MaxTemplateLen),
                 values : SeqsUpTo(FormatValues, MaxValues)]
    /\ heap = Undefined
    /\ ret = Undefined
    /\ threw = FALSE
    /\ NoEnv

CallFormat ==
    /\ pc = "ready"
    /\ ret' = StrV(Format(args.str, args.values))
    /\ pc' = "done"
    /\ UNCHANGED <<args, heap, threw, DEBUG, log_channels, console, emitted>>

SpecFormat == InitFormat /\ [][CallFormat]_vars

\* The template with every token %N replaced by the Nth value, and by
\* `missing` when there is no Nth value (N = 0 or N > number of values).
RECURSIVE Substituted(_, _, _)
Substituted(s, values, missing) ==
    IF Len(s) = 0 THEN <<>>
    ELSE IF Head(s) = "%" /\ Len(DigitRun(Tail(s))) > 0
         THEN LET num == DigitRun(Tail(s))
                  n == ParseInt(num)
              IN  (IF n \in 1..Len(values) THEN values[n] ELSE missing)
                  \o Substituted(SubSeq(s, Len(num) + 2, Len(s)), values, missing)
         ELSE <<Head(s)>> \o Substituted(Tail(s), values, missing)

\* C10: format replaces each %N by the Nth extra argument and a token that
\* refers to no extra argument, N = 0 included, by the empty or undefined
\* text; the text outside tokens is unchanged.
C10_FormatSubstitutes ==
    pc = "done" =>
        \E missing \in {<<>>, UndefinedText} :
            ret.v = Substituted(args.str, args.values, missing)

\* The same for templates without a token %0.
C10_FormatWithoutTokenZero ==
    (pc = "done" /\
     \A i \in 1..Len(args.str) :
        (args.str[i] = "%" /\ Len(DigitRun(SliceFrom(args.str, i))) > 0)
            => ParseInt(DigitRun(SliceFrom(args.str, i))) # 0) =>
        ret.v = Substituted(args.str, args.values, UndefinedText)

====
